---------------------------- MODULE Spec2Model ----------------------------
(***************************************************************************)
(* A model of stream5.py, the role-based sales dashboard.  The script runs *)
(* top to bottom once per pass: load_data, the date bounds, the sidebar    *)
(* widgets, filter_data, generate_pdf, the export buttons and the role's   *)
(* dashboard.  Money is counted in whole dollars, text is a sequence of    *)
(* characters, a date is the number of days since 1970-01-01 and a         *)
(* datetime is a day with the seconds since midnight.                      *)
(***************************************************************************)
EXTENDS Integers, Sequences, FiniteSets, TLC

(***************************************************************************)
(* Bounds of the model.                                                    *)
(***************************************************************************)
\* tables of at most MaxRows rows of the catalogue (and its prefixes)
MaxRows == 1
\* the user moves at most MaxChanged sidebar widgets away from their defaults
MaxChanged == 2
\* at most MaxMissing columns are absent from the file
MaxMissing == 2
\* the file is written at most MaxVersions times, the first one included
MaxVersions == 2

(***************************************************************************)
(* Text.  Characters are ordered by code point, as Python orders them.     *)
(***************************************************************************)
AsciiOrder ==
    <<" ", "/", "A", "B", "C", "D", "E", "F", "G", "H", "I", "J", "K", "L", "M",
      "N", "O", "P", "Q", "R", "S", "T", "U", "V", "W", "X", "Y", "Z",
      "a", "b", "c", "d", "e", "f", "g", "h", "i", "j", "k", "l", "m",
      "n", "o", "p", "q", "r", "s", "t", "u", "v", "w", "x", "y", "z">>

CodeTable ==
    [c \in {AsciiOrder[i] : i \in 1..Len(AsciiOrder)} |->
        CHOOSE i \in 1..Len(AsciiOrder) : AsciiOrder[i] = c]

\* ord(c)
Code(c) == CodeTable[c]

IsUpper(c) == Code(c) >= Code("A") /\ Code(c) <= Code("Z")

\* str.lower() of one character
LowerChar(c) == IF IsUpper(c) THEN AsciiOrder[Code(c) + 26] ELSE c

Lower(s) == [i \in 1..Len(s) |-> LowerChar(s[i])]

\* Python's s < t on str
StrLess(s, t) ==
    \E i \in 1..(Len(t)) :
        /\ i <= Len(s) + 1
        /\ \A j \in 1..(i - 1) : s[j] = t[j]
        /\ \/ i = Len(s) + 1
           \/ Code(s[i]) < Code(t[i])

\* the missing value of a text cell (NaN); no text of the model equals it
NULL == <<"NaN", "NaN">>

\* Series.str.contains(keyword, case=False, na=False) on one cell
StrContains(cell, keyword) ==
    /\ cell # NULL
    /\ \E i \in 1..(Len(cell) - Len(keyword) + 1) :
           SubSeq(Lower(cell), i, i + Len(keyword) - 1) = Lower(keyword)

All == <<"A", "l", "l">>
NA == <<"N", "/", "A">>

(***************************************************************************)
(* Dates.                                                                  *)
(***************************************************************************)
\* NaT, the missing datetime
NaT == [day |-> -1, secs |-> -1]

IsNaT(d) == d = NaT

\* pd.to_datetime(a date): midnight of that day
Midnight(day) == [day |-> day, secs |-> 0]

\* Timestamp.date()
DateOf(d) == d.day

\* a >= b and a <= b on datetimes; a comparison with NaT is False
DtLeq(a, b) ==
    /\ ~IsNaT(a)
    /\ ~IsNaT(b)
    /\ \/ a.day < b.day
       \/ a.day = b.day /\ a.secs <= b.secs

DtGeq(a, b) == DtLeq(b, a)

\* the civil date <<year, month, day>> of a day number
Civil(day) ==
    LET z == day + 719468
        era == z \div 146097
        doe == z - era * 146097
        yoe == (doe - doe \div 1460 + doe \div 36524 - doe \div 146096) \div 365
        doy == doe - (365 * yoe + yoe \div 4 - yoe \div 100)
        mp == (5 * doy + 2) \div 153
        d == doy - (153 * mp + 2) \div 5 + 1
        m == IF mp < 10 THEN mp + 3 ELSE mp - 9
        y == yoe + era * 400 + (IF m <= 2 THEN 1 ELSE 0)
    IN  <<y, m, d>>

\* Series.dt.to_period(freq) / Series.dt.date, as the label the chart groups by
PeriodOf(d, freq) ==
    CASE freq = "Daily" -> <<"D", d.day>>
      [] freq = "Weekly" -> <<"W", (d.day + 3) \div 7>>
      [] freq = "Monthly" -> <<"M", Civil(d.day)[1], Civil(d.day)[2]>>
      [] freq = "Quarterly" -> <<"Q", Civil(d.day)[1], (Civil(d.day)[2] + 2) \div 3>>
      [] freq = "Yearly" -> <<"Y", Civil(d.day)[1]>>

\* the day number of a civil date
Day(y, m, d) ==
    LET yy == IF m <= 2 THEN y - 1 ELSE y
        era == yy \div 400
        yoe == yy - era * 400
        doy == (153 * (IF m > 2 THEN m - 3 ELSE m + 9) + 2) \div 5 + d - 1
        doe == yoe * 365 + yoe \div 4 - yoe \div 100 + doy
    IN  era * 146097 + doe - 719468

\* the default range used when no sale_date is valid
DefaultMin == Day(2024, 1, 1)
\* a default range that ends with June
DefaultMaxJune == Day(2024, 6, 30)

DefaultMax == Day(2024, 12, 31)

(***************************************************************************)
(* The file sales_data.csv.                                                *)
(***************************************************************************)
required_columns ==
    <<"sale_date", "country", "salesperson", "total_price", "category",
      "product_name", "sales_channel", "customer_age", "customer_gender",
      "event_type", "status_code", "customer_id", "customer_type", "occupation",
      "session_id", "response_time_ms", "url_requested">>

\* the columns read_csv is asked to parse as dates
parse_dates == <<"sale_date", "timestamp">>

Range(s) == {s[i] : i \in 1..Len(s)}

AllColumns == Range(required_columns) \cup Range(parse_dates)

\* a sale_date cell whose text is no date: read_csv leaves it as text
BadText == [day |-> -2, secs |-> -2]

At(y, m, d, secs) == [day |-> Day(y, m, d), secs |-> secs]

US == <<"U", "S">>
UK == <<"U", "K">>
Al == <<"A", "l">>
Bo == <<"B", "o">>
Soft == <<"S", "o", "f", "t">>
Hard == <<"H", "a", "r", "d">>
Web == <<"W", "e", "b">>
Shop == <<"S", "h", "o", "p">>
PA == <<"P", "A">>
PB == <<"P", "B">>
PC == <<"P", "C">>
PD == <<"P", "D">>
PE == <<"P", "E">>
PF == <<"P", "F">>
New == <<"N", "e", "w">>
Old == <<"O", "l", "d">>
Eng == <<"E", "n", "g">>
Doc == <<"D", "o", "c">>
Cust(c) == <<"c", c>>
Sess(c) == <<"s", c>>
Url(c) == <<"/", c>>

Rec(sd, ts, co, sp, price, cat, prod, chan, age, ev, status, cust, ctype, occ, sess, resp, url) ==
    [sale_date |-> sd, timestamp |-> ts, country |-> co, salesperson |-> sp,
     total_price |-> price, category |-> cat, product_name |-> prod,
     sales_channel |-> chan, customer_age |-> age, event_type |-> ev,
     status_code |-> status, customer_id |-> cust, customer_type |-> ctype,
     occupation |-> occ, session_id |-> sess, response_time_ms |-> resp,
     url_requested |-> url]

\* the rows a file of the model is made of
Catalogue ==
    << Rec(At(2024, 1, 30, 0), At(2024, 1, 30, 36000), US, Bo, 100, Soft, PA, Web,
           20, "Purchase", 200, Cust("a"), New, Eng, Sess("a"), 100, Url("a")),
       Rec(At(2024, 1, 31, 0), At(2024, 1, 31, 36000), UK, Bo, 50, Soft, PA, Web,
           40, "Purchase", 200, Cust("b"), Old, Doc, Sess("b"), 300, Url("a")),
       Rec(At(2024, 2, 1, 0), At(2024, 2, 1, 50400), US, Al, 30, Hard, PB, Shop,
           0, "Purchase", 200, Cust("a"), New, Eng, Sess("a"), 200, Url("b")),
       Rec(At(2024, 1, 31, 0), At(2024, 1, 31, 50400), US, Bo, 150, Hard, PC, Web,
           30, "Purchase", 200, Cust("c"), New, Doc, Sess("c"), 100, Url("c")),
       Rec(At(2024, 1, 30, 0), At(2024, 1, 30, 3600), UK, Al, 900, Soft, PD, Shop,
           50, "Purchase", 200, Cust("b"), Old, Eng, Sess("d"), 100, Url("d")),
       Rec(At(2024, 1, 30, 52200), At(2024, 1, 30, 52200), US, NULL, 20, Soft, PE, Web,
           51, "Purchase", 200, Cust("c"), New, Doc, Sess("e"), 500, Url("a")),
       Rec(At(2024, 1, 31, 0), At(2024, 1, 31, 3600), UK, Al, 10, Hard, PF, Shop,
           110, "Purchase", 200, Cust("d"), Old, Eng, Sess("f"), 100, Url("b")),
       Rec(At(2024, 1, 30, 0), At(2024, 1, 30, 36000), US, Bo, 0, Soft, PB, Web,
           40, "Purchase", 200, Cust("a"), New, Eng, Sess("a"), 100, Url("b")),
       Rec(At(2024, 1, 31, 0), NaT, UK, Al, 40, Soft, PA, Web,
           35, "Demo Request", 200, Cust("b"), Old, Doc, Sess("g"), 700, Url("a")),
       Rec(At(2024, 2, 1, 0), At(2024, 2, 1, 36000), US, Bo, 60, Hard, PC, Shop,
           45, "Purchase", 404, Cust("c"), New, Eng, Sess("h"), 100, Url("c")),
       Rec(NaT, NaT, US, Al, 70, Soft, NULL, Web,
           25, "Purchase", 200, Cust("d"), Old, Doc, Sess("i"), 100, NULL),
       Rec(BadText, At(2024, 1, 30, 0), UK, Bo, 80, Hard, PB, Shop,
           60, "Purchase", 200, Cust("a"), New, Eng, Sess("j"), 100, Url("d")),
       Rec(At(2024, 1, 30, 0), At(2024, 1, 30, 0), US, Al, -5, Soft, PA, Web,
           33, "Purchase", 200, Cust("b"), Old, Doc, Sess("k"), 100, Url("a")),
       Rec(At(2024, 1, 31, 0), At(2024, 1, 31, 0), UK, Bo, 15, Hard, PB, Shop,
           130, "Purchase", 200, Cust("c"), New, Eng, Sess("l"), 100, Url("b")) >>

\* the rows of the catalogue at the positions of I, in the catalogue's order
Pick(I) ==
    LET pos(i) == Cardinality({j \in I : j <= i})
    IN  [k \in 1..Cardinality(I) |-> Catalogue[CHOOSE i \in I : pos(i) = k]]

\* the tables a file of the model holds: every table of at most MaxRows rows
\* of the catalogue, and every prefix of the catalogue
Tables ==
    {Pick(I) : I \in {J \in SUBSET (1..Len(Catalogue)) : Cardinality(J) <= MaxRows}}
        \cup {SubSeq(Catalogue, 1, n) : n \in 1..Len(Catalogue)}

\* the sets of columns a file of the model lacks
MissingSets == {M \in SUBSET AllColumns : Cardinality(M) <= MaxMissing}

\* the files of the model: absent, lacking columns, or holding a table
Sources ==
    {[exists |-> FALSE, missing |-> {}, rows |-> <<>>, version |-> 1]}
        \cup {[exists |-> TRUE, missing |-> M, rows |-> SubSeq(Catalogue, 1, 3),
               version |-> 1] : M \in MissingSets \ {{}}}
        \cup {[exists |-> TRUE, missing |-> {}, rows |-> t, version |-> 1] : t \in Tables}

\* the files the app is started on in the runs where the file is rewritten
FirstFiles ==
    {[exists |-> TRUE, missing |-> {}, rows |-> t, version |-> 1] :
        t \in {Pick({1}), SubSeq(Catalogue, 1, 3)}}

\* what the file is rewritten to while the app runs: another table, a table
\* load_data rejects, a file without a column
Rewrites ==
    {[exists |-> TRUE, missing |-> {}, rows |-> Pick({4}), version |-> 1],
     [exists |-> TRUE, missing |-> {}, rows |-> Pick({13}), version |-> 1],
     [exists |-> TRUE, missing |-> {"country"}, rows |-> Pick({4}), version |-> 1]}

(***************************************************************************)
(* The state of the program.                                               *)
(***************************************************************************)
VARIABLES
    source,         \* the file sales_data.csv, and how many times it was written
    today,          \* datetime.now().date()
    cache,          \* st.cache_data's entry for load_data
    pc,             \* where the pass is
    df,             \* the loaded table
    min_date,       \* the bounds offered to the date inputs
    max_date,
    ui,             \* the values of the sidebar widgets and of the granularity box
    filtered_df,    \* the Working Subset
    purchases_df,   \* the Purchase Subset
    pdf,            \* what generate_pdf wrote
    csv,            \* the CSV export
    live,           \* what the role's dashboard shows
    errors,         \* the st.error messages of the pass
    warnings        \* the st.warning messages of the pass

vars == <<source, today, cache, pc, df, min_date, max_date, ui, filtered_df,
          purchases_df, pdf, csv, live, errors, warnings>>

\* None, for a target that is not set
None == 0 - 1

\* None, for a selection that is not set
NoSelection == <<>>

Msg(text, cols) == [text |-> text, cols |-> cols]

NoCache == [valid |-> FALSE, df |-> <<>>]

NoUi ==
    [role |-> "", selected_country |-> All, selected_category |-> All,
     selected_sales_channel |-> All, keyword |-> <<>>,
     selected_salesperson |-> NoSelection, sales_target |-> None,
     manager_sales_target |-> None, marketer_url_target |-> None,
     start_date |-> 0, end_date |-> 0, granularity |-> ""]

NoPdf == [made |-> FALSE, raised |-> FALSE, kpis |-> <<>>, charts |-> <<>>,
          top_products |-> <<>>, gauge_color |-> "",
          conversion_rate |-> [num |-> 0, den |-> 1],
          layout |-> <<>>, files_left |-> {}]

NoLive == [shown |-> FALSE, raised |-> FALSE, kpis |-> <<>>, charts |-> <<>>,
           top_products |-> <<>>, gauge_color |-> "",
           conversion_rate |-> [num |-> 0, den |-> 1]]

NoCsv == [made |-> FALSE, columns |-> {}, rows |-> <<>>]

\* the state at the start of a pass
PassStart ==
    /\ pc' = "load"
    /\ df' = <<>>
    /\ min_date' = 0
    /\ max_date' = 0
    /\ ui' = NoUi
    /\ filtered_df' = <<>>
    /\ purchases_df' = <<>>
    /\ pdf' = NoPdf
    /\ csv' = NoCsv
    /\ live' = NoLive
    /\ errors' = <<>>
    /\ warnings' = <<>>

Init ==
    /\ source \in Sources
    /\ today = Day(2024, 6, 1)
    /\ cache = NoCache
    /\ pc = "load"
    /\ df = <<>>
    /\ min_date = 0
    /\ max_date = 0
    /\ ui = NoUi
    /\ filtered_df = <<>>
    /\ purchases_df = <<>>
    /\ pdf = NoPdf
    /\ csv = NoCsv
    /\ live = NoLive
    /\ errors = <<>>
    /\ warnings = <<>>

(***************************************************************************)
(* load_data.                                                              *)
(***************************************************************************)
\* the columns of cols that the file lacks, in the order of cols
MissingOf(cols, src) == SelectSeq(cols, LAMBDA c : c \in src.missing)

\* missing_columns of load_data
missing_columns(src) == MissingOf(required_columns, src)

HasDuplicates(s) == \E i, j \in 1..Len(s) : i < j /\ s[i] = s[j]

\* the age test with an upper limit of 150
InvalidAgeAbove150(age) == age < 0 \/ age > 150

\* line 33: an age load_data rejects
InvalidAge(age) == age < 0 \/ age > 120

\* what load_data does on the file src: the table it returns, or the error it
\* reports before st.stop()
load_data(src) ==
    IF ~src.exists
    THEN [ok |-> FALSE, df |-> <<>>, warnings |-> <<>>,
          errors |-> <<Msg("sales_data.csv not found. Please upload the file.", <<>>)>>]
    ELSE IF MissingOf(parse_dates, src) # <<>>
    THEN \* read_csv raises ValueError, caught by "except Exception"
         [ok |-> FALSE, df |-> <<>>, warnings |-> <<>>,
          errors |-> <<Msg("Error loading data: Missing column provided to 'parse_dates'",
                           MissingOf(parse_dates, src))>>]
    ELSE IF missing_columns(src) # <<>>
    THEN [ok |-> FALSE, df |-> <<>>, warnings |-> <<>>,
          errors |-> <<Msg("Missing required columns", missing_columns(src))>>]
    ELSE IF \E i \in 1..Len(src.rows) : src.rows[i].total_price < 0
    THEN [ok |-> FALSE, df |-> <<>>, warnings |-> <<>>,
          errors |-> <<Msg("Negative values found in 'total_price'.", <<>>)>>]
    ELSE IF \E i \in 1..Len(src.rows) : InvalidAge(src.rows[i].customer_age)
    THEN [ok |-> FALSE, df |-> <<>>, warnings |-> <<>>,
          errors |-> <<Msg("Invalid 'customer_age' values detected.", <<>>)>>]
    ELSE [ok |-> TRUE, df |-> src.rows, errors |-> <<>>,
          warnings |->
              IF HasDuplicates([i \in 1..Len(src.rows) |-> src.rows[i].session_id])
              THEN <<Msg("Duplicate session IDs detected. Consider cleaning the dataset.", <<>>)>>
              ELSE <<>>]

\* df = load_data(): the cached table when there is one, the file otherwise
LoadData ==
    /\ pc = "load"
    /\ LET r == IF cache.valid
                THEN [ok |-> TRUE, df |-> cache.df, errors |-> <<>>, warnings |-> <<>>]
                ELSE load_data(source)
       IN  /\ df' = r.df
           /\ errors' = errors \o r.errors
           /\ warnings' = warnings \o r.warnings
           /\ cache' = IF r.ok THEN [valid |-> TRUE, df |-> r.df] ELSE cache
           /\ pc' = IF r.ok THEN "dates" ELSE "stopped"
    /\ UNCHANGED <<source, today, min_date, max_date, ui, filtered_df, purchases_df,
                   pdf, csv, live>>

(***************************************************************************)
(* The date bounds.                                                        *)
(***************************************************************************)
\* pd.to_datetime(cell, errors='coerce')
to_datetime_coerce(cell) == IF cell = BadText THEN NaT ELSE cell

\* the rows of t with sale_date coerced
CoerceDates(t) ==
    [i \in 1..Len(t) |-> [t[i] EXCEPT !.sale_date = to_datetime_coerce(t[i].sale_date)]]

ValidDates(t) == {t[i].sale_date : i \in 1..Len(t)} \ {NaT}

DtMin(S) == CHOOSE d \in S : \A e \in S : DtLeq(d, e)
DtMax(S) == CHOOSE d \in S : \A e \in S : DtLeq(e, d)

IntMin(a, b) == IF a <= b THEN a ELSE b

HandleDates ==
    /\ pc = "dates"
    /\ LET t == CoerceDates(df)
       IN  /\ df' = t
           /\ IF ValidDates(t) = {}
              THEN /\ warnings' = Append(warnings,
                          Msg("No valid dates found in 'sale_date'. Using default range.", <<>>))
                   /\ min_date' = DefaultMin
                   /\ max_date' = DefaultMax
              ELSE /\ warnings' = warnings
                   /\ min_date' = DateOf(DtMin(ValidDates(t)))
                   /\ max_date' = IntMin(DateOf(DtMax(ValidDates(t))), today)
    /\ pc' = "sidebar"
    /\ UNCHANGED <<source, today, cache, ui, filtered_df, purchases_df, pdf, csv,
                   live, errors>>

(***************************************************************************)
(* The sidebar.                                                            *)
(***************************************************************************)
Roles == {"Sales Manager", "Salesperson", "Sales Marketer"}

\* the values of column col of t that are not null
Values(t, col) == {t[i][col] : i \in 1..Len(t)} \ {NULL}

\* sorted(S)
\* the order of the labels of one frequency
PeriodLess(a, b) ==
    \/ a[2] < b[2]
    \/ Len(a) = 3 /\ a[2] = b[2] /\ a[3] < b[3]

\* the order of the keys of a groupby over two text columns
PairLess(a, b) == StrLess(a[1], b[1]) \/ (a[1] = b[1] /\ StrLess(a[2], b[2]))

\* Python's < on the values of one kind: numbers, texts, period labels, and
\* tuples of them
KeyLess(kind, a, b) ==
    CASE kind = "int" -> a < b
      [] kind = "text" -> StrLess(a, b)
      [] kind = "text,text" -> PairLess(a, b)
      [] kind = "period" -> PeriodLess(a, b)
      [] kind = "period,text" -> PeriodLess(a[1], b[1]) \/ (a[1] = b[1] /\ StrLess(a[2], b[2]))
      [] kind = "int,text" -> a[1] < b[1] \/ (a[1] = b[1] /\ StrLess(a[2], b[2]))

\* sorted(S), S a set of values of one kind
Sorted(S, kind) ==
    LET rank(x) == Cardinality({y \in S : KeyLess(kind, y, x)}) + 1
    IN  [n \in 1..Cardinality(S) |-> CHOOSE x \in S : rank(x) = n]

\* ['All'] + sorted(df[col].dropna().unique().tolist())
Options(t, col) == <<All>> \o Sorted(Values(t, col), "text")

\* the texts the user types into "Search by Product or URL", the empty one first
Keywords == <<<<>>, <<"a">>>>

\* the options of the role's granularity box
Granularities(role) ==
    CASE role = "Sales Manager" -> <<"Daily", "Weekly", "Monthly", "Yearly">>
      [] role = "Salesperson" -> <<"Monthly", "Quarterly">>
      [] role = "Sales Marketer" -> <<"Daily", "Weekly", "Monthly">>

\* the days the user picks in a date input offering [lo, hi]: its two ends and
\* the days of the table between them
DatePicks(t, lo, hi) ==
    {lo, hi} \cup {d \in {DateOf(x) : x \in ValidDates(t)} : lo <= d /\ d <= hi}

\* every target input shown to the Salesperson and to nobody else
TargetInputOfSalesperson(role, owner, values) ==
    IF role = "Salesperson" THEN values ELSE <<None>>

\* lines 78-94: the number_input of a target is shown to the role that owns
\* it; for the other roles the target is None
TargetInput(role, owner, values) == IF role = owner THEN values ELSE <<None>>

\* what each widget offers in a pass over table t, its default value first
\* (a target is a number_input with min_value=0.0)
Choices(role, t, lo, hi) ==
    [role |-> <<role>>,
     selected_country |-> Options(t, "country"),
     selected_category |-> Options(t, "category"),
     selected_sales_channel |-> Options(t, "sales_channel"),
     keyword |-> Keywords,
     selected_salesperson |->
         IF role = "Salesperson" THEN Options(t, "salesperson") ELSE <<NoSelection>>,
     sales_target |-> TargetInput(role, "Salesperson", <<1000, 0, 100>>),
     manager_sales_target |-> TargetInput(role, "Sales Manager", <<1000, 0, 100>>),
     marketer_url_target |-> TargetInput(role, "Sales Marketer", <<100, 0, 1000>>),
     start_date |-> <<lo>> \o Sorted(DatePicks(t, lo, hi) \ {lo}, "int"),
     end_date |-> <<hi>> \o Sorted(DatePicks(t, lo, hi) \ {hi}, "int"),
     granularity |-> Granularities(role)]

\* the widgets' values before the user touches them
Defaults(role, t, lo, hi) ==
    [f \in DOMAIN Choices(role, t, lo, hi) |-> Choices(role, t, lo, hi)[f][1]]

\* the values the widgets of role hold when the user has moved at most
\* MaxChanged of them away from their defaults
SettingsOf(role, t, lo, hi) ==
    LET ch == Choices(role, t, lo, hi)
        most == CHOOSE n \in 1..12 : \A f \in DOMAIN ch : Len(ch[f]) <= n
    IN  UNION {{[f \in DOMAIN ch |-> IF f \in C THEN ch[f][g[f]] ELSE ch[f][1]] :
                  g \in {h \in [C -> 2..most] : \A f \in C : h[f] <= Len(ch[f])}} :
               C \in {D \in SUBSET DOMAIN ch : Cardinality(D) <= MaxChanged}}

Settings(t, lo, hi) == UNION {SettingsOf(role, t, lo, hi) : role \in Roles}

\* lines 63-97: every widget takes the value the user gave it
Sidebar ==
    /\ pc = "sidebar"
    /\ min_date <= max_date
    /\ ui' \in Settings(df, min_date, max_date)
    /\ pc' = "refresh"
    /\ UNCHANGED <<source, today, cache, df, min_date, max_date, filtered_df,
                   purchases_df, pdf, csv, live, errors, warnings>>

\* line 96: st.date_input with min_value after max_value raises
\* StreamlitAPIException, which ends the pass
SidebarFails ==
    /\ pc = "sidebar"
    /\ min_date > max_date
    /\ pc' = "crashed"
    /\ UNCHANGED <<source, today, cache, df, min_date, max_date, ui, filtered_df,
                   purchases_df, pdf, csv, live, errors, warnings>>

\* the button handled without clearing the cache
RefreshKeepsCache ==
    /\ pc = "refresh"
    /\ PassStart
    /\ UNCHANGED <<source, today, cache>>

\* the "Refresh Data" button was clicked: the cache is cleared, the file is
\* loaded again and the script reruns
Refresh ==
    /\ pc = "refresh"
    /\ LET r == load_data(source)
       IN  IF r.ok
           THEN /\ cache' = [valid |-> TRUE, df |-> r.df]
                /\ PassStart
           ELSE /\ cache' = NoCache
                /\ pc' = "stopped"
                /\ errors' = errors \o r.errors
                /\ UNCHANGED <<df, min_date, max_date, ui, filtered_df, purchases_df,
                               pdf, csv, live, warnings>>
    /\ UNCHANGED <<source, today>>

(***************************************************************************)
(* filter_data and the Purchase Subset.                                    *)
(***************************************************************************)
\* df[df[col] == value]: a null cell equals nothing
Where(t, col, value) == SelectSeq(t, LAMBDA r : r[col] # NULL /\ r[col] = value)

\* the rows whose sale_date lies between midnight of s and midnight of e
Between(t, s, e) ==
    SelectSeq(t, LAMBDA r : DtGeq(r.sale_date, Midnight(s)) /\ DtLeq(r.sale_date, Midnight(e)))

\* the filter with a salesperson of None compared with the column
filter_data_NoneIsValue(t, country, category, sales_channel, keyword, salesperson, start_date, end_date) ==
    LET f1 == IF country # All THEN Where(t, "country", country) ELSE t
        f2 == IF category # All THEN Where(f1, "category", category) ELSE f1
        f3 == IF sales_channel # All THEN Where(f2, "sales_channel", sales_channel) ELSE f2
        f4 == IF keyword # <<>>
              THEN SelectSeq(f3, LAMBDA r : \/ StrContains(r.product_name, keyword)
                                            \/ StrContains(r.url_requested, keyword))
              ELSE f3
        f5 == IF salesperson # All THEN Where(f4, "salesperson", salesperson) ELSE f4
    IN  Between(f5, start_date, end_date)

\* lines 106-126
filter_data(t, country, category, sales_channel, keyword, salesperson, start_date, end_date) ==
    LET f1 == IF country # All THEN Where(t, "country", country) ELSE t
        f2 == IF category # All THEN Where(f1, "category", category) ELSE f1
        f3 == IF sales_channel # All THEN Where(f2, "sales_channel", sales_channel) ELSE f2
        f4 == IF keyword # <<>>
              THEN SelectSeq(f3, LAMBDA r : \/ StrContains(r.product_name, keyword)
                                            \/ StrContains(r.url_requested, keyword))
              ELSE f3
        f5 == IF salesperson # NoSelection /\ salesperson # All
              THEN Where(f4, "salesperson", salesperson)
              ELSE f4
    IN  Between(f5, start_date, end_date)

\* the subset taken without looking at the status code
IsPurchaseAnyStatus(r) == r.total_price > 0 /\ r.event_type = "Purchase"

\* the predicate of a successful sale
IsPurchase(r) == r.total_price > 0 /\ r.event_type = "Purchase" /\ r.status_code = 200

Purchases(t) == SelectSeq(t, IsPurchase)

\* lines 128-129, and the two warnings of lines 423-426
FilterData ==
    /\ pc = "refresh"
    /\ LET f == filter_data(df, ui.selected_country, ui.selected_category,
                            ui.selected_sales_channel, ui.keyword,
                            ui.selected_salesperson, ui.start_date, ui.end_date)
       IN  /\ filtered_df' = f
           /\ purchases_df' = Purchases(f)
           /\ warnings' = warnings
                \o (IF f = <<>>
                    THEN <<Msg("Filtered data is empty. Adjust filters to include data.", <<>>)>>
                    ELSE <<>>)
                \o (IF Purchases(f) = <<>>
                    THEN <<Msg("No successful purchase data available. PDF may lack purchase-related charts.", <<>>)>>
                    ELSE <<>>)
    /\ pc' = "pdf"
    /\ UNCHANGED <<source, today, cache, df, min_date, max_date, ui, pdf, csv, live,
                   errors>>

(***************************************************************************)
(* The pandas operations the metrics are built from.                       *)
(***************************************************************************)
RECURSIVE SumSeq(_)
SumSeq(s) == IF s = <<>> THEN 0 ELSE Head(s) + SumSeq(Tail(s))

\* Series.sum() of total_price
SumPrice(t) == SumSeq([i \in 1..Len(t) |-> t[i].total_price])

\* an amount as a fraction; whole amounts have den = 1
Amount(n) == [num |-> n, den |-> 1]

\* groupby(key)[value].sum().reset_index() over rows that have a key: keys and
\* values hold the key and the value of each row; one pair <<key, sum>> per
\* key, in ascending order of the keys
GroupSum(keys, values, kind) ==
    LET sorted == Sorted(Range(keys), kind)
        sum(k) == SumSeq([i \in 1..Len(keys) |-> IF keys[i] = k THEN values[i] ELSE 0])
    IN  [n \in 1..Len(sorted) |-> <<sorted[n], sum(sorted[n])>>]

\* the cells of column col of t, row by row
Column(t, col) == [i \in 1..Len(t) |-> t[i][col]]

\* one 1 for each row of t
Ones(t) == [i \in 1..Len(t) |-> 1]

\* groupby(col)['total_price'].sum() over one text column
ByColumn(t, col) ==
    LET rows == SelectSeq(t, LAMBDA r : r[col] # NULL)
    IN  GroupSum(Column(rows, col), Column(rows, "total_price"), "text")

\* groupby([c1, c2])['total_price'].sum() over two text columns
ByTwo(t, c1, c2) ==
    LET rows == SelectSeq(t, LAMBDA r : r[c1] # NULL /\ r[c2] # NULL)
    IN  GroupSum([i \in 1..Len(rows) |-> <<rows[i][c1], rows[i][c2]>>],
                 Column(rows, "total_price"), "text,text")

\* groupby([sale_date period, 'product_name'])['total_price'].sum()
ByPeriodProduct(t, freq) ==
    LET rows == SelectSeq(t, LAMBDA r : ~IsNaT(r.sale_date) /\ r.product_name # NULL)
    IN  GroupSum([i \in 1..Len(rows) |->
                     <<PeriodOf(rows[i].sale_date, freq), rows[i].product_name>>],
                 Column(rows, "total_price"), "period,text")

\* groupby('period')['total_price'].sum() of the Salesperson role
ByPeriod(t, freq) ==
    LET rows == SelectSeq(t, LAMBDA r : ~IsNaT(r.sale_date))
    IN  GroupSum([i \in 1..Len(rows) |-> PeriodOf(rows[i].sale_date, freq)],
                 Column(rows, "total_price"), "period")

\* Series.nlargest(n) of the sums of g (keep='first'): the n largest, largest
\* first, equal sums in the order they have in g
nlargest(g, n) ==
    LET rank(i) ==
            Cardinality({j \in 1..Len(g) : \/ g[j][2] > g[i][2]
                                           \/ g[j][2] = g[i][2] /\ j < i}) + 1
    IN  [k \in 1..IntMin(n, Len(g)) |-> g[CHOOSE i \in 1..Len(g) : rank(i) = k]]

Kpi(label, text, amount) == [label |-> label, text |-> text, amount |-> amount]

Chart(title, by, data, target) ==
    [title |-> title, by |-> by, data |-> data, target |-> target]

\* the charts of cs that have data: an empty one is not drawn
Drawn(cs) == SelectSeq(cs, LAMBDA c : c.data # <<>>)

(***************************************************************************)
(* generate_pdf.                                                           *)
(***************************************************************************)
\* the first five products in groupby order, without the sort by sum
PdfTopProductsHead(p) ==
    SubSeq(ByColumn(p, "product_name"), 1, IntMin(5, Len(ByColumn(p, "product_name"))))

\* line 156: top_products of generate_pdf
PdfTopProducts(p) == nlargest(ByColumn(p, "product_name"), 5)

\* lines 155-169: the KPI block of the Sales Manager
ManagerPdfKpis(f, p) ==
    LET total_sales == SumPrice(p)
        top_products == PdfTopProducts(p)
        sales_by_person == ByColumn(p, "salesperson")
        top_product == IF top_products # <<>> THEN top_products[1][1] ELSE NA
        top_product_sales == IF top_products # <<>> THEN top_products[1][2] ELSE 0
        top_salesperson == IF sales_by_person # <<>> THEN sales_by_person[1][1] ELSE NA
        top_salesperson_sales == IF sales_by_person # <<>> THEN sales_by_person[1][2] ELSE 0
        demo_requests == Len(SelectSeq(f, LAMBDA r : r.event_type = "Demo Request"))
    IN  << Kpi("Total Revenue", <<>>, Amount(total_sales)),
           Kpi("Top Product", top_product, Amount(top_product_sales)),
           Kpi("Top Salesperson", top_salesperson, Amount(top_salesperson_sales)),
           Kpi("Demo Requests", <<>>, Amount(demo_requests)) >>

\* lines 172-211: the charts of the Sales Manager
ManagerPdfCharts(p, manager_sales_target) ==
    Drawn(<< Chart("Total Revenue by Product", <<"product_name">>,
                   ByColumn(p, "product_name"), manager_sales_target),
             Chart("Sales by Channel", <<"sales_channel">>,
                   ByColumn(p, "sales_channel"), None),
             Chart("Sales Distribution by Salesperson", <<"salesperson">>,
                   ByColumn(p, "salesperson"), None),
             Chart("Sales Trend Over Time by Product", <<"Monthly", "product_name">>,
                   ByPeriodProduct(p, "Monthly"), manager_sales_target) >>)

\* lines 217-219: the predicate of a successful sale, as generate_pdf writes it
PdfIsPurchase(r) == r.total_price > 0 /\ r.event_type = "Purchase" /\ r.status_code = 200

\* lines 214-216: person_df of generate_pdf
PdfPersonDf(f, selected_salesperson, start_date, end_date) ==
    Between(IF selected_salesperson # NoSelection /\ selected_salesperson # All
            THEN Where(f, "salesperson", selected_salesperson)
            ELSE f,
            start_date, end_date)

\* the colour chosen with > where the code has >=
PdfGaugeColorStrict(revenue_achieved, sales_target) ==
    IF revenue_achieved > sales_target THEN "green"
    ELSE IF 10 * revenue_achieved > 9 * sales_target THEN "magenta"
    ELSE "red"

\* lines 228-233
PdfGaugeColor(revenue_achieved, sales_target) ==
    IF revenue_achieved >= sales_target THEN "green"
    ELSE IF 10 * revenue_achieved >= 9 * sales_target THEN "magenta"
    ELSE "red"

\* the rate computed without the guard on total_events
PdfConversionRateUnguarded(number_of_sales, total_events) ==
    [num |-> number_of_sales * 100, den |-> total_events]

\* line 226, the rate in percent as a fraction
PdfConversionRate(number_of_sales, total_events) ==
    IF total_events > 0
    THEN [num |-> number_of_sales * 100, den |-> total_events]
    ELSE [num |-> 0, den |-> 1]

\* customer_id + ' (' + customer_type + ')'
CustomerLabel(key) == key[1] \o <<" ", "(">> \o key[2] \o <<")">>

\* groupby(['customer_id', 'customer_type']).sum().nlargest(n), labelled
TopCustomers(p, n) ==
    LET top == nlargest(ByTwo(p, "customer_id", "customer_type"), n)
    IN  [i \in 1..Len(top) |-> <<CustomerLabel(top[i][1]), top[i][2]>>]

\* lines 220-245: the KPI block of the Salesperson
SalespersonPdfKpis(person_df, p) ==
    LET number_of_sales == Len(p)
        revenue_achieved == SumPrice(p)
        top_products == nlargest(ByColumn(p, "product_name"), 1)
        top_product == IF top_products # <<>> THEN top_products[1][1] ELSE NA
        top_product_sales == IF top_products # <<>> THEN top_products[1][2] ELSE 0
    IN  << Kpi("Number of Sales", <<>>, Amount(number_of_sales)),
           Kpi("Revenue Achieved", <<>>, Amount(revenue_achieved)),
           Kpi("Top Product Sold", top_product, Amount(top_product_sales)),
           Kpi("Conversion Rate", <<>>, PdfConversionRate(number_of_sales, Len(person_df))) >>

\* lines 247-313: the gauge, which is always drawn, and the charts
SalespersonPdfCharts(p, sales_target) ==
    <<Chart("Sales Progress", <<>>, <<<<<<>>, SumPrice(p)>>>>, sales_target)>>
        \o Drawn(<< Chart("Individual Sales Performance", <<"Monthly">>,
                          ByPeriod(p, "Monthly"), sales_target),
                    Chart("Performance Breakdown by Product and Region",
                          <<"product_name", "country">>,
                          ByTwo(p, "product_name", "country"), None),
                    Chart("Sales by Product", <<"product_name">>,
                          ByColumn(p, "product_name"), sales_target),
                    Chart("Top 3 Customers", <<"customer_id", "customer_type">>,
                          TopCustomers(p, 3), None) >>)

(***************************************************************************)
(* The Sales Marketer's metrics.                                           *)
(***************************************************************************)
RECURSIVE Gcd(_, _)
Gcd(a, b) == IF b = 0 THEN a ELSE Gcd(b, a % b)

\* the fraction n/d in lowest terms
Frac(n, d) == IF n = 0 THEN Amount(0) ELSE [num |-> n \div Gcd(n, d), den |-> d \div Gcd(n, d)]

FracAdd(a, b) == Frac(a.num * b.den + b.num * a.den, a.den * b.den)

RECURSIVE FracSum(_)
FracSum(s) == IF s = <<>> THEN Amount(0) ELSE FracAdd(Head(s), FracSum(Tail(s)))

\* groupby('session_id')['response_time_ms'].mean().mean(); session_id and
\* response_time_ms are never null in the files of the model
MeanOfSessionMeans(f) ==
    LET rows == SelectSeq(f, LAMBDA r : r.session_id # NULL)
        sums == GroupSum(Column(rows, "session_id"), Column(rows, "response_time_ms"), "text")
        counts == GroupSum(Column(rows, "session_id"), Ones(rows), "text")
        total == FracSum([i \in 1..Len(sums) |-> Frac(sums[i][2], counts[i][2])])
    IN  Frac(total.num, total.den * Len(sums))

\* pd.to_datetime(timestamp).dt.hour of the rows that have a timestamp
Hours(f) ==
    LET ts == SelectSeq(f, LAMBDA r : ~IsNaT(r.timestamp))
    IN  [i \in 1..Len(ts) |-> ts[i].timestamp.secs \div 3600]

Count(s, x) == Cardinality({i \in 1..Len(s) : s[i] = x})

\* Series.mode(): the most frequent values, in ascending order
Modes(s) == {x \in Range(s) : \A y \in Range(s) : Count(s, y) <= Count(s, x)}

\* filtered_df['hour'].mode().iloc[0] raises IndexError when no row has an hour
ModeFails(f) == f # <<>> /\ Hours(f) = <<>>

SetMin(S) == CHOOSE x \in S : \A y \in S : x <= y

age_bins == <<0, 20, 30, 40, 50, 100>>
age_labels == <<"0-20", "21-30", "31-40", "41-50", "51+">>

\* buckets closed on the left: an age on an edge goes to the bucket above it
age_group_left(age) ==
    IF \E k \in 1..5 : age_bins[k] <= age /\ age < age_bins[k + 1]
    THEN CHOOSE k \in 1..5 : age_bins[k] <= age /\ age < age_bins[k + 1]
    ELSE 0

\* pd.cut(customer_age, bins=age_bins, labels=age_labels, include_lowest=True):
\* the number of the bucket of age, 0 when it has none (NaN)
age_group(age) ==
    IF age = age_bins[1] THEN 1
    ELSE IF \E k \in 1..5 : age_bins[k] < age /\ age <= age_bins[k + 1]
    THEN CHOOSE k \in 1..5 : age_bins[k] < age /\ age <= age_bins[k + 1]
    ELSE 0

\* groupby(['age_group', 'product_name'])['total_price'].sum(), the groups that
\* have rows
ByAgeProduct(p) ==
    LET rows == SelectSeq(p, LAMBDA r : age_group(r.customer_age) # 0 /\ r.product_name # NULL)
        g == GroupSum([i \in 1..Len(rows) |->
                          <<age_group(rows[i].customer_age), rows[i].product_name>>],
                      Column(rows, "total_price"), "int,text")
    IN  [i \in 1..Len(g) |-> <<<<age_labels[g[i][1][1]], g[i][1][2]>>, g[i][2]>>]

\* url_requested.value_counts(): the visits of each URL (the order of the
\* slices of the pie is the order of the URLs here)
UrlVisits(f) ==
    LET rows == SelectSeq(f, LAMBDA r : r.url_requested # NULL)
    IN  GroupSum(Column(rows, "url_requested"), Ones(rows), "text")

\* groupby([timestamp period, 'url_requested']).size()
UrlTrend(f, freq) ==
    LET rows == SelectSeq(f, LAMBDA r : ~IsNaT(r.timestamp) /\ r.url_requested # NULL)
    IN  GroupSum([i \in 1..Len(rows) |->
                     <<PeriodOf(rows[i].timestamp, freq), rows[i].url_requested>>],
                 Ones(rows), "period,text")

\* lines 316-332: the KPI block of the Sales Marketer
MarketerPdfKpis(f) ==
    LET total_visits == Cardinality({f[i].session_id : i \in 1..Len(f)})
        avg_session_length == IF f # <<>> THEN MeanOfSessionMeans(f) ELSE Amount(0)
        most_active_hour == IF f # <<>> THEN Amount(SetMin(Modes(Hours(f)))) ELSE Amount(0)
    IN  << Kpi("Total Visits", <<>>, Amount(total_visits)),
           Kpi("Avg. Session Length (ms)", <<>>, avg_session_length),
           Kpi("Most Active Hour", IF f # <<>> THEN <<>> ELSE NA, most_active_hour),
           Kpi("Total Log Requests", <<>>, Amount(Len(f))) >>

\* lines 334-396: the charts of the Sales Marketer
MarketerPdfCharts(f, p, marketer_url_target) ==
    Drawn(<< Chart("Geographic Sales Distribution", <<"country">>,
                   ByColumn(p, "country"), None),
             Chart("Product Sales by Age", <<"age_group", "product_name">>,
                   ByAgeProduct(p), None),
             Chart("Product Sales by Occupation", <<"occupation", "product_name">>,
                   ByTwo(p, "occupation", "product_name"), None),
             Chart("Top 5 High-Value Clients", <<"customer_id", "customer_type">>,
                   TopCustomers(p, 5), None),
             Chart("Most Visited URLs", <<"url_requested">>, UrlVisits(f), None),
             Chart("URL Trend Over Time", <<"Monthly", "url_requested">>,
                   UrlTrend(f, "Monthly"), marketer_url_target) >>)

\* a length in points, held in sevenths of a point (the scaled height of an
\* image 700 pixels wide is a whole number of sevenths)
Pt(n) == 7 * n

\* reportlab's letter page: width and height in points
letter == <<612, 792>>

\* lines 136, 401, 412: y = height - 50
TopOfPage == Pt(letter[2] - 50)

\* lines 141-146 and the KPI block of the role (lines 153-170, 236-245,
\* 323-332): y when the chart loop starts
KpiBlockEnd == TopOfPage - Pt(20) - Pt(20) - Pt(30) - Pt(20) - Pt(15) - Pt(15) - Pt(15) - Pt(30)

\* update_layout(height=...) of the figure: 100 for the gauge (line 267), 150
\* for every other chart (line 178 and the like)
FigureHeight(title) == IF title = "Sales Progress" THEN 100 ELSE 150

\* img.getSize() of the image pio.write_image(fig, scale=2) wrote: the figure
\* has no width, so it is exported 700 pixels wide
getSize(title) == <<2 * 700, 2 * FigureHeight(title)>>

\* lines 406-409: target_height = target_width * img_height / img_width
target_height(title) == (Pt(500) * getSize(title)[2]) \div getSize(title)[1]

\* the page break before a title taken when less than 100 points remain
TitleNeedsPageBelow100(y) == y < Pt(100)

\* line 399
TitleNeedsPage(y) == y < Pt(150)

\* line 410
ImageNeedsPage(y, h) == y - h < Pt(50)

\* lines 398-414: the chart loop, from position y on page page; for each chart
\* where its title and its image are drawn
RECURSIVE draw_charts(_, _, _)
draw_charts(titles, y, page) ==
    IF titles = <<>> THEN <<>>
    ELSE LET title_page == IF TitleNeedsPage(y) THEN page + 1 ELSE page
             title_y == IF TitleNeedsPage(y) THEN TopOfPage ELSE y
             h == target_height(Head(titles))
             image_page == IF ImageNeedsPage(title_y - Pt(20), h)
                           THEN title_page + 1 ELSE title_page
             image_top == IF ImageNeedsPage(title_y - Pt(20), h)
                          THEN TopOfPage ELSE title_y - Pt(20)
         IN  <<[title |-> Head(titles), y |-> y, page |-> page,
                title_page |-> title_page, title_y |-> title_y,
                image_page |-> image_page, image_bottom |-> image_top - h,
                height |-> h]>>
             \o draw_charts(Tail(titles), image_top - h - Pt(20), image_page)

\* the titles of the charts, in the order of the list
Titles(charts) == [i \in 1..Len(charts) |-> charts[i].title]

\* generate_pdf: what it writes for the role, or Raised when it raises
Raised == [NoPdf EXCEPT !.raised = TRUE]

\* the report, with the values generate_pdf computed on the way
Report(kpis, charts, top_products, gauge_color, conversion_rate) ==
    [made |-> TRUE, raised |-> FALSE, kpis |-> kpis, charts |-> charts,
     top_products |-> top_products, gauge_color |-> gauge_color,
     conversion_rate |-> conversion_rate,
     layout |-> draw_charts(Titles(charts), KpiBlockEnd, 1),
     files_left |-> {}]

generate_pdf(role, f, p, selected_salesperson, sales_target, manager_sales_target, marketer_url_target, start_date, end_date) ==
    CASE role = "Sales Manager" ->
            Report(ManagerPdfKpis(f, p), ManagerPdfCharts(p, manager_sales_target),
                   PdfTopProducts(p), "", Amount(0))
      [] role = "Salesperson" ->
            LET person_df == PdfPersonDf(f, selected_salesperson, start_date, end_date)
                purchases == SelectSeq(person_df, PdfIsPurchase)
            IN  Report(SalespersonPdfKpis(person_df, purchases),
                       SalespersonPdfCharts(purchases, sales_target),
                       nlargest(ByColumn(purchases, "product_name"), 1),
                       PdfGaugeColor(SumPrice(purchases), sales_target),
                       PdfConversionRate(Len(purchases), Len(person_df)))
      [] role = "Sales Marketer" ->
            IF ModeFails(f)
            THEN Raised
            ELSE Report(MarketerPdfKpis(f), MarketerPdfCharts(f, p, marketer_url_target),
                        <<>>, "", Amount(0))

\* line 429
GeneratePdf ==
    /\ pc = "pdf"
    /\ pdf' = generate_pdf(ui.role, filtered_df, purchases_df, ui.selected_salesperson,
                           ui.sales_target, ui.manager_sales_target,
                           ui.marketer_url_target, ui.start_date, ui.end_date)
    /\ pc' = IF pdf'.raised THEN "crashed" ELSE "export"
    /\ UNCHANGED <<source, today, cache, df, min_date, max_date, ui, filtered_df,
                   purchases_df, csv, live, errors, warnings>>

\* lines 179-181 and 406-413: writing the image of chart k (write_image) or
\* reading it back (ImageReader) raises. Nothing in generate_pdf catches it:
\* the files NamedTemporaryFile(delete=False) made and os.unlink did not reach
\* stay on disk.
GeneratePdfFails ==
    /\ pc = "pdf"
    /\ \E r \in {generate_pdf(ui.role, filtered_df, purchases_df, ui.selected_salesperson,
                              ui.sales_target, ui.manager_sales_target,
                              ui.marketer_url_target, ui.start_date, ui.end_date)} :
          /\ ~r.raised
          /\ \E titles \in {Titles(r.charts)} :
                \E k \in 1..Len(titles) :
                    \/ pdf' = [Raised EXCEPT !.files_left = {titles[i] : i \in 1..k}]
                    \/ pdf' = [Raised EXCEPT !.files_left = {titles[i] : i \in k..Len(titles)}]
    /\ pc' = "crashed"
    /\ UNCHANGED <<source, today, cache, df, min_date, max_date, ui, filtered_df,
                   purchases_df, csv, live, errors, warnings>>

\* generate_pdf adding 'hour' to the frame it was passed
PdfAddsColumnsInPlace(role) == IF role = "Sales Marketer" THEN {"hour"} ELSE {}

\* lines 272, 318 and 345: generate_pdf adds 'period', 'hour' and 'age_group'
\* to copies bound to its own names, so the frame of line 128 gains no column
PdfAddsColumns(role) == {}

\* lines 434-448: the two download buttons. to_csv(index=False) writes the
\* columns and the rows of the frame of line 128, which load_data only
\* returns with every column present; the dashboards add their columns
\* (lines 689-690) after it
Export ==
    /\ pc = "export"
    /\ csv' = [made |-> TRUE, columns |-> AllColumns \cup PdfAddsColumns(ui.role),
               rows |-> filtered_df]
    /\ pc' = "dashboard"
    /\ UNCHANGED <<source, today, cache, df, min_date, max_date, ui, filtered_df,
                   purchases_df, pdf, live, errors, warnings>>

(***************************************************************************)
(* The dashboards.                                                         *)
(***************************************************************************)
\* the dashboard, with the values computed on the way
Shown(kpis, charts, top_products, gauge_color, conversion_rate) ==
    [shown |-> TRUE, raised |-> FALSE, kpis |-> kpis, charts |-> charts,
     top_products |-> top_products, gauge_color |-> gauge_color,
     conversion_rate |-> conversion_rate]

\* line 590: top_products of the Sales Manager dashboard
LiveTopProducts(p) == nlargest(ByColumn(p, "product_name"), 5)

\* lines 589-610: the four metrics of the Sales Manager
ManagerLiveKpis(f, p) ==
    LET total_sales == SumPrice(p)
        top_products == LiveTopProducts(p)
        sales_by_person == ByColumn(p, "salesperson")
        some == p # <<>>
        top_product == IF some /\ top_products # <<>> THEN top_products[1][1] ELSE NA
        top_product_sales == IF some /\ top_products # <<>> THEN top_products[1][2] ELSE 0
        top_salesperson ==
            IF some /\ sales_by_person # <<>> THEN sales_by_person[1][1] ELSE NA
        top_salesperson_sales ==
            IF some /\ sales_by_person # <<>> THEN sales_by_person[1][2] ELSE 0
        demo_requests == Len(SelectSeq(f, LAMBDA r : r.event_type = "Demo Request"))
    IN  << Kpi("Total Revenue", <<>>, Amount(total_sales)),
           Kpi("Top Product", top_product, Amount(top_product_sales)),
           Kpi("Top Salesperson", top_salesperson, Amount(top_salesperson_sales)),
           Kpi("Demo Requests", <<>>, Amount(demo_requests)) >>

\* lines 615-678: the four charts of the Sales Manager
ManagerLiveCharts(p, manager_sales_target, granularity) ==
    Drawn(<< Chart("Total Revenue by Product", <<"product_name">>,
                   ByColumn(p, "product_name"), manager_sales_target),
             Chart("Sales by Channel", <<"sales_channel">>,
                   ByColumn(p, "sales_channel"), None),
             Chart("Sales Distribution by Salesperson", <<"salesperson">>,
                   ByColumn(p, "salesperson"), None),
             Chart("Sales Trend Over Time by Product", <<granularity, "product_name">>,
                   ByPeriodProduct(p, granularity), manager_sales_target) >>)

\* the dashboard's subset taken without looking at the status code
LiveIsPurchaseAnyStatus(r) == r.total_price > 0 /\ r.event_type = "Purchase"

\* lines 463-465: the predicate of a successful sale, as salesperson_dashboard writes it
LiveIsPurchase(r) == r.total_price > 0 /\ r.event_type = "Purchase" /\ r.status_code = 200

\* lines 455-461: person_df of salesperson_dashboard
LivePersonDf(t, selected_salesperson, start_date, end_date) ==
    Between(IF selected_salesperson # NoSelection /\ selected_salesperson # All
            THEN Where(t, "salesperson", selected_salesperson)
            ELSE t,
            start_date, end_date)

\* lines 476-481
LiveGaugeColor(revenue_achieved, sales_target) ==
    IF revenue_achieved >= sales_target THEN "green"
    ELSE IF 10 * revenue_achieved >= 9 * sales_target THEN "magenta"
    ELSE "red"

\* line 473, the rate in percent as a fraction
LiveConversionRate(number_of_sales, total_events) ==
    IF total_events > 0
    THEN [num |-> number_of_sales * 100, den |-> total_events]
    ELSE [num |-> 0, den |-> 1]

\* lines 467-491: the four metrics of the Salesperson
SalespersonLiveKpis(p) ==
    LET number_of_sales == Len(p)
        revenue_achieved == SumPrice(p)
        top_products == nlargest(ByColumn(p, "product_name"), 1)
        top_product == IF top_products # <<>> THEN top_products[1][1] ELSE NA
        top_product_sales == IF top_products # <<>> THEN top_products[1][2] ELSE 0
    IN  << Kpi("Number of Sales", <<>>, Amount(number_of_sales)),
           Kpi("Revenue Achieved", <<>>, Amount(revenue_achieved)),
           Kpi("Top Product Sold", top_product, Amount(top_product_sales)),
           Kpi("Sales Progress", <<>>, Amount(revenue_achieved)) >>

\* lines 492-582: the gauge under "Sales Progress", and the four charts
SalespersonLiveCharts(p, sales_target, granularity) ==
    <<Chart("Sales Progress", <<>>, <<<<<<>>, SumPrice(p)>>>>, sales_target)>>
        \o Drawn(<< Chart("Individual Sales Performance", <<granularity>>,
                          ByPeriod(p, granularity), sales_target),
                    Chart("Performance Breakdown by Product and Region",
                          <<"product_name", "country">>,
                          ByTwo(p, "product_name", "country"), None),
                    Chart("Sales by Product", <<"product_name">>,
                          ByColumn(p, "product_name"), sales_target),
                    Chart("Top 3 Customers", <<"customer_id", "customer_type">>,
                          TopCustomers(p, 3), None) >>)

salesperson_dashboard(t, selected_salesperson, start_date, end_date, sales_target, granularity) ==
    LET person_df == LivePersonDf(t, selected_salesperson, start_date, end_date)
        purchases == SelectSeq(person_df, LiveIsPurchase)
    IN  Shown(SalespersonLiveKpis(purchases),
              SalespersonLiveCharts(purchases, sales_target, granularity),
              nlargest(ByColumn(purchases, "product_name"), 1),
              LiveGaugeColor(SumPrice(purchases), sales_target),
              LiveConversionRate(Len(purchases), Len(person_df)))

\* lines 687-702: the four metrics of the Sales Marketer
MarketerLiveKpis(f) ==
    LET total_visits == Cardinality({f[i].session_id : i \in 1..Len(f)})
        avg_session_length == IF f # <<>> THEN MeanOfSessionMeans(f) ELSE Amount(0)
        most_active_hour == IF f # <<>> THEN Amount(SetMin(Modes(Hours(f)))) ELSE Amount(0)
    IN  << Kpi("Total Visits", <<>>, Amount(total_visits)),
           Kpi("Avg. Session Length (ms)", <<>>, avg_session_length),
           Kpi("Most Active Hour", IF f # <<>> THEN <<>> ELSE NA, most_active_hour),
           Kpi("Total Log Requests", <<>>, Amount(Len(f))) >>

\* lines 706-798: the six charts of the Sales Marketer
MarketerLiveCharts(f, p, marketer_url_target, granularity) ==
    Drawn(<< Chart("Geographic Sales Distribution", <<"country">>,
                   ByColumn(p, "country"), None),
             Chart("Product Sales by Age", <<"age_group", "product_name">>,
                   ByAgeProduct(p), None),
             Chart("Product Sales by Occupation", <<"occupation", "product_name">>,
                   ByTwo(p, "occupation", "product_name"), None),
             Chart("Top 5 High-Value Clients", <<"customer_id", "customer_type">>,
                   TopCustomers(p, 5), None),
             Chart("Most Visited URLs", <<"url_requested">>, UrlVisits(f), None),
             Chart("URL Trend Over Time", <<granularity, "url_requested">>,
                   UrlTrend(f, granularity), marketer_url_target) >>)

\* the warnings the dashboard shows in place of the charts that have no data
NoDataWarnings(all, drawn) ==
    LET titles == {drawn[i].title : i \in 1..Len(drawn)}
        empty == SelectSeq(all, LAMBDA title : title \notin titles)
    IN  [i \in 1..Len(empty) |-> Msg("No data.", <<empty[i]>>)]

ChartTitles(role) ==
    CASE role = "Sales Manager" ->
            <<"Total Revenue by Product", "Sales by Channel",
              "Sales Distribution by Salesperson", "Sales Trend Over Time by Product">>
      [] role = "Salesperson" ->
            <<"Individual Sales Performance", "Performance Breakdown by Product and Region",
              "Sales by Product", "Top 3 Customers">>
      [] role = "Sales Marketer" ->
            <<"Geographic Sales Distribution", "Product Sales by Age",
              "Product Sales by Occupation", "Top 5 High-Value Clients",
              "Most Visited URLs", "URL Trend Over Time">>

\* lines 585-798: the dashboard of the role
dashboard(role, f, p, u) ==
    CASE role = "Sales Manager" ->
            Shown(ManagerLiveKpis(f, p),
                  ManagerLiveCharts(p, u.manager_sales_target, u.granularity),
                  LiveTopProducts(p), "", Amount(0))
      [] role = "Salesperson" ->
            salesperson_dashboard(f, u.selected_salesperson, u.start_date, u.end_date,
                                  u.sales_target, u.granularity)
      [] role = "Sales Marketer" ->
            IF ModeFails(f)
            THEN [NoLive EXCEPT !.raised = TRUE]
            ELSE Shown(MarketerLiveKpis(f),
                       MarketerLiveCharts(f, p, u.marketer_url_target, u.granularity),
                       <<>>, "", Amount(0))

Dashboard ==
    /\ pc = "dashboard"
    /\ live' = dashboard(ui.role, filtered_df, purchases_df, ui)
    /\ warnings' = warnings \o NoDataWarnings(ChartTitles(ui.role), live'.charts)
    /\ pc' = IF live'.raised THEN "crashed" ELSE "done"
    /\ UNCHANGED <<source, today, cache, df, min_date, max_date, ui, filtered_df,
                   purchases_df, pdf, csv, errors>>

\* the user touches a widget, or reloads the page: the script runs again
Rerun ==
    /\ pc \in {"done", "stopped", "crashed"}
    /\ PassStart
    /\ UNCHANGED <<source, today, cache>>

Next ==
    \/ LoadData
    \/ HandleDates
    \/ Sidebar
    \/ Refresh
    \/ FilterData
    \/ GeneratePdf
    \/ Export
    \/ Dashboard
    \/ Rerun

Spec == Init /\ [][Next]_vars

\* somebody rewrites sales_data.csv while the app holds a cached table
FileChanges ==
    /\ cache.valid
    /\ source.version < MaxVersions
    /\ \E f \in Rewrites : source' = [f EXCEPT !.version = source.version + 1]
    /\ UNCHANGED <<today, cache, pc, df, min_date, max_date, ui, filtered_df,
                   purchases_df, pdf, csv, live, errors, warnings>>

InitRefresh == Init /\ source \in FirstFiles

NextRefresh == Next \/ FileChanges

\* the passes during which the file is rewritten
SpecRefresh == InitRefresh /\ [][NextRefresh]_vars

\* the passes in which writing or reading a chart image may fail
NextIO == Next \/ GeneratePdfFails

SpecIO == Init /\ [][NextIO]_vars

\* the app started on any day: before the sale dates of the file, among them
\* or after them
InitClock ==
    /\ source \in Sources
    /\ today \in {Day(2024, 1, 29), Day(2024, 1, 31), Day(2024, 6, 1)}
    /\ cache = NoCache
    /\ pc = "load"
    /\ df = <<>>
    /\ min_date = 0
    /\ max_date = 0
    /\ ui = NoUi
    /\ filtered_df = <<>>
    /\ purchases_df = <<>>
    /\ pdf = NoPdf
    /\ csv = NoCsv
    /\ live = NoLive
    /\ errors = <<>>
    /\ warnings = <<>>

SpecClock == InitClock /\ [][Next \/ SidebarFails]_vars

(***************************************************************************)
(* The properties.                                                         *)
(***************************************************************************)
\* the pass has computed the Working Subset and the Purchase Subset
Filtered == pc \in {"pdf", "export", "dashboard", "done", "crashed"}

\* the successful sale of the specification
SuccessfulSale(r) == r.total_price > 0 /\ r.event_type = "Purchase" /\ r.status_code = 200

\* the entry of a KPI block that has the label
KpiOf(kpis, label) == CHOOSE k \in Range(kpis) : k.label = label

\* C1: the Purchase Subset is made of rows of the Working Subset, it is exactly
\* the rows of it that are successful sales (price > 0, event Purchase, status
\* 200), and the Salesperson's revenue and number of sales, in the PDF and on
\* the dashboard, count exactly those rows too.
C1_PurchaseSubset ==
    /\ Filtered =>
          /\ Range(purchases_df) \subseteq Range(filtered_df)
          /\ \A i \in 1..Len(purchases_df) : SuccessfulSale(purchases_df[i])
          /\ purchases_df = SelectSeq(filtered_df, SuccessfulSale)
    /\ pc = "done" /\ ui.role = "Salesperson" =>
          /\ KpiOf(pdf.kpis, "Revenue Achieved").amount
                = Amount(SumPrice(SelectSeq(filtered_df, SuccessfulSale)))
          /\ KpiOf(live.kpis, "Revenue Achieved").amount
                = Amount(SumPrice(SelectSeq(filtered_df, SuccessfulSale)))
          /\ KpiOf(pdf.kpis, "Number of Sales").amount
                = Amount(Len(SelectSeq(filtered_df, SuccessfulSale)))
          /\ KpiOf(live.kpis, "Number of Sales").amount
                = Amount(Len(SelectSeq(filtered_df, SuccessfulSale)))

\* a Salesperson pass whose Working Subset holds sales and rows that are none
C1_Witness ==
    /\ pc = "done"
    /\ ui.role = "Salesperson"
    /\ purchases_df # <<>>
    /\ \E i \in 1..Len(filtered_df) : filtered_df[i].status_code # 200
    /\ \E i \in 1..Len(filtered_df) : filtered_df[i].total_price = 0
    /\ \E i \in 1..Len(filtered_df) : filtered_df[i].event_type # "Purchase"

\* the label of the revenue total of a role
RevenueLabel(role) == IF role = "Sales Manager" THEN "Total Revenue" ELSE "Revenue Achieved"

\* C2: the revenue total of the dashboard (the Sales Manager's "Total Revenue",
\* the Salesperson's "Revenue Achieved") equals the one generate_pdf wrote in
\* the same pass.
C2_RevenueLiveEqualsPdf ==
    pc = "done" /\ ui.role \in {"Sales Manager", "Salesperson"} =>
        KpiOf(live.kpis, RevenueLabel(ui.role)).amount
            = KpiOf(pdf.kpis, RevenueLabel(ui.role)).amount

\* a Salesperson pass with one salesperson selected, a revenue and rows that
\* are no sales
C2_Witness ==
    /\ pc = "done"
    /\ ui.role = "Salesperson"
    /\ ui.selected_salesperson # All
    /\ KpiOf(pdf.kpis, "Revenue Achieved").amount.num > 0
    /\ Len(purchases_df) < Len(filtered_df)

\* the labels of a KPI block
Labels(kpis) == [i \in 1..Len(kpis) |-> kpis[i].label]

\* C3: the dashboard and the PDF of a pass hold the same KPI entries and the
\* same charts (title, grouping and data), in the same order.
C3_SameSections ==
    pc = "done" =>
        /\ Labels(live.kpis) = Labels(pdf.kpis)
        /\ Len(live.charts) = Len(pdf.charts)
        /\ \A i \in 1..Len(pdf.charts) :
              /\ live.charts[i].title = pdf.charts[i].title
              /\ live.charts[i].by = pdf.charts[i].by
              /\ live.charts[i].data = pdf.charts[i].data

\* the criteria of u other than the date range
OtherCriteria(r, u) ==
    /\ u.selected_country # All => r.country = u.selected_country
    /\ u.selected_category # All => r.category = u.selected_category
    /\ u.selected_sales_channel # All => r.sales_channel = u.selected_sales_channel
    /\ u.keyword # <<>> =>
          StrContains(r.product_name, u.keyword) \/ StrContains(r.url_requested, u.keyword)
    /\ u.selected_salesperson \notin {NoSelection, All} =>
          r.salesperson = u.selected_salesperson

\* C4: for s <= e, every row filter_data returns is a row of the table with a
\* sale_date on a day of [s, e], and every row of the table that meets the
\* other criteria and is dated on a day of [s, e], the day e included, is
\* returned.
C4_DateRangeInclusive ==
    Filtered /\ ui.start_date <= ui.end_date =>
        /\ \A i \in 1..Len(filtered_df) :
              /\ filtered_df[i] \in Range(df)
              /\ ~IsNaT(filtered_df[i].sale_date)
              /\ ui.start_date <= DateOf(filtered_df[i].sale_date)
              /\ DateOf(filtered_df[i].sale_date) <= ui.end_date
        /\ \A j \in 1..Len(df) :
              /\ ~IsNaT(df[j].sale_date)
              /\ ui.start_date <= DateOf(df[j].sale_date)
              /\ DateOf(df[j].sale_date) <= ui.end_date
              /\ OtherCriteria(df[j], ui)
              => df[j] \in Range(filtered_df)

\* C5: the date range that reaches filter_data has start <= end, and both
\* ends lie between the first and the last sale_date of the table.
C5_StartNotAfterEnd ==
    Filtered =>
        /\ ui.start_date <= ui.end_date
        /\ ValidDates(df) # {} =>
              /\ DateOf(DtMin(ValidDates(df))) <= ui.start_date
              /\ ui.end_date <= DateOf(DtMax(ValidDates(df)))

\* the gauge colour policy: green from the target on, magenta from nine tenths
\* of it on, red below
GaugePolicy(revenue, target) ==
    IF revenue >= target THEN "green"
    ELSE IF 10 * revenue >= 9 * target THEN "magenta"
    ELSE "red"

\* C6: in a Salesperson pass, with revenue >= 0 and target >= 0, the gauge is
\* green when revenue >= target, magenta when 0.9 * target <= revenue < target
\* and red otherwise, and the dashboard and the PDF show the same colour.
C6_GaugeColour ==
    pc = "done" /\ ui.role = "Salesperson" =>
        LET revenue == SumPrice(SelectSeq(filtered_df, SuccessfulSale))
        IN  /\ revenue >= 0
            /\ ui.sales_target >= 0
            /\ pdf.gauge_color = GaugePolicy(revenue, ui.sales_target)
            /\ live.gauge_color = GaugePolicy(revenue, ui.sales_target)

\* a Salesperson pass whose revenue is exactly nine tenths of a positive target
C6_Witness ==
    /\ pc = "done"
    /\ ui.role = "Salesperson"
    /\ ui.sales_target > 0
    /\ 10 * SumPrice(SelectSeq(filtered_df, SuccessfulSale)) = 9 * ui.sales_target
    /\ pdf.gauge_color = "magenta"
    /\ live.gauge_color = "magenta"

\* the rate (a fraction, in percent) is k events out of n
IsRate(rate, k, n) ==
    IF n = 0 THEN rate = Amount(0)
    ELSE rate.den > 0 /\ rate.num * n = 100 * k * rate.den

\* C7: in a Salesperson pass the conversion rate is the number of successful
\* sales over the number of rows of the Working Subset (held in percent), it is
\* 0 when the Working Subset is empty, and the pass raises no error.
C7_ConversionRate ==
    /\ pc = "crashed" => ui.role # "Salesperson"
    /\ pc = "done" /\ ui.role = "Salesperson" =>
          /\ IsRate(pdf.conversion_rate,
                    Len(SelectSeq(filtered_df, SuccessfulSale)), Len(filtered_df))
          /\ IsRate(live.conversion_rate,
                    Len(SelectSeq(filtered_df, SuccessfulSale)), Len(filtered_df))

\* a Salesperson pass over a table with rows whose Working Subset is empty
C7_Witness ==
    /\ pc = "done"
    /\ ui.role = "Salesperson"
    /\ df # <<>>
    /\ filtered_df = <<>>
    /\ pdf.conversion_rate = Amount(0)

\* the summed total_price of the rows of t whose column col is key
RevenueOf(t, col, key) == SumPrice(SelectSeq(t, LAMBDA r : r[col] = key))

\* top is the list of the (at most n) keys of column col of t with the largest
\* summed revenue: largest first, equal sums by name ascending
IsTopList(top, t, col, n) ==
    LET keys == Values(t, col)
        listed == {top[i][1] : i \in 1..Len(top)}
        Ahead(a, b) == \/ RevenueOf(t, col, a) > RevenueOf(t, col, b)
                       \/ RevenueOf(t, col, a) = RevenueOf(t, col, b) /\ StrLess(a, b)
    IN  /\ Len(top) = IF Cardinality(keys) < n THEN Cardinality(keys) ELSE n
        /\ listed \subseteq keys
        /\ \A i \in 1..Len(top) : top[i][2] = RevenueOf(t, col, top[i][1])
        /\ \A i, j \in 1..Len(top) : i < j => Ahead(top[i][1], top[j][1])
        /\ \A k \in keys \ listed : \A i \in 1..Len(top) : Ahead(top[i][1], k)

\* the (product, price) pairs of the rows of t
ProductPrices(t) == [i \in 1..Len(t) |-> <<t[i].product_name, t[i].total_price>>]

\* C8: in a Sales Manager pass the total revenue is the sum of total_price
\* over the Purchase Subset, and top products is the list of at most 5
\* products by summed revenue descending, ties by product name ascending, in
\* the PDF and on the dashboard; purchases (PA,100),(PA,50),(PB,30) give a
\* total of 180 and the list (PA,150),(PB,30).
C8_ManagerTotals ==
    pc = "done" /\ ui.role = "Sales Manager" =>
        /\ KpiOf(pdf.kpis, "Total Revenue").amount = Amount(SumPrice(purchases_df))
        /\ KpiOf(live.kpis, "Total Revenue").amount = Amount(SumPrice(purchases_df))
        /\ IsTopList(pdf.top_products, purchases_df, "product_name", 5)
        /\ IsTopList(live.top_products, purchases_df, "product_name", 5)
        /\ ProductPrices(purchases_df) = << <<PA, 100>>, <<PA, 50>>, <<PB, 30>> >> =>
              /\ KpiOf(pdf.kpis, "Total Revenue").amount = Amount(180)
              /\ pdf.top_products = << <<PA, 150>>, <<PB, 30>> >>

\* a Sales Manager pass over purchases of more than five products, two of
\* them with the same revenue among the five listed
C8_Witness ==
    /\ pc = "done"
    /\ ui.role = "Sales Manager"
    /\ Cardinality(Values(purchases_df, "product_name")) > 5
    /\ Len(pdf.top_products) = 5
    /\ \E i \in 1..4 : pdf.top_products[i][2] = pdf.top_products[i + 1][2]

\* C9: in a Sales Manager pass over purchases with a salesperson, the "Top
\* Salesperson" KPI of the PDF and of the dashboard names a salesperson whose
\* summed revenue over the Purchase Subset is the largest, with that sum.
C9_TopSalespersonIsMax ==
    pc = "done" /\ ui.role = "Sales Manager"
                /\ Values(purchases_df, "salesperson") # {} =>
        \A kpis \in {pdf.kpis, live.kpis} :
            LET top == KpiOf(kpis, "Top Salesperson")
            IN  /\ top.text \in Values(purchases_df, "salesperson")
                /\ top.amount = Amount(RevenueOf(purchases_df, "salesperson", top.text))
                /\ \A s \in Values(purchases_df, "salesperson") :
                      RevenueOf(purchases_df, "salesperson", s) <= top.amount.num

\* C10: a file that lacks required columns (sale_date among them or not) stops
\* the pass with one error message, and this message lists every required
\* column that is missing.
C10_AllMissingListed ==
    source.exists /\ source.missing \cap Range(required_columns) # {}
                  /\ pc # "load" =>
        /\ pc = "stopped"
        /\ Len(errors) = 1
        /\ source.missing \cap Range(required_columns) \subseteq Range(errors[1].cols)

\* the file holds a table, with every column, that load_data rejects
Rejected(src) ==
    /\ src.exists
    /\ src.missing = {}
    /\ \E i \in 1..Len(src.rows) :
          \/ src.rows[i].total_price < 0
          \/ src.rows[i].customer_age < 0
          \/ src.rows[i].customer_age > 120

\* C11: when the table of the file has a negative total_price or an age
\* outside [0, 120] (and no table read from the file earlier is cached), the
\* pass stops in load_data with the validation error, the table is not cached
\* and nothing after load_data runs: no filter, no PDF, no export, no
\* dashboard.
C11_ValidationHalts ==
    Rejected(source) /\ (cache.valid => cache.df = source.rows) =>
        /\ pc \in {"load", "stopped"}
        /\ ~cache.valid
        /\ filtered_df = <<>>
        /\ purchases_df = <<>>
        /\ ~pdf.made
        /\ ~csv.made
        /\ ~live.shown
        /\ pc = "stopped" =>
              /\ Len(errors) = 1
              /\ errors[1].text \in {"Negative values found in 'total_price'.",
                                     "Invalid 'customer_age' values detected."}

\* a pass stopped by the age check
C11_Witness ==
    /\ pc = "stopped"
    /\ Rejected(source)
    /\ errors = <<Msg("Invalid 'customer_age' values detected.", <<>>)>>

\* generate_pdf has ended, by returning or by raising
PdfEnded == pdf.made \/ pdf.raised

\* C12: when generate_pdf has ended, on any path, no temporary chart image it
\* created is left on disk.
C12_TempFilesDeleted == PdfEnded => pdf.files_left = {}

\* the steps of a pass that work on a loaded table
Loaded == pc \in {"dates", "sidebar", "refresh", "pdf", "export", "dashboard", "done", "crashed"}

\* every value of the pass is computed from the cached table
FromCache ==
    /\ Loaded => cache.valid /\ CoerceDates(df) = CoerceDates(cache.df)
    /\ Filtered =>
          /\ filtered_df = filter_data(df, ui.selected_country, ui.selected_category,
                                       ui.selected_sales_channel, ui.keyword,
                                       ui.selected_salesperson, ui.start_date, ui.end_date)
          /\ purchases_df = SelectSeq(filtered_df, SuccessfulSale)
    /\ pdf.made =>
          pdf = generate_pdf(ui.role, filtered_df, purchases_df, ui.selected_salesperson,
                             ui.sales_target, ui.manager_sales_target,
                             ui.marketer_url_target, ui.start_date, ui.end_date)
    /\ csv.made => csv.rows = filtered_df

\* the step of the refresh button: the cache holds what load_data reads from
\* the file as it is now, or nothing when load_data stops, and a restarted pass
\* keeps no value of the pass before
RefreshStep ==
    pc = "refresh" /\ pc' \in {"load", "stopped"} =>
        /\ cache' = IF load_data(source).ok
                    THEN [valid |-> TRUE, df |-> load_data(source).df]
                    ELSE NoCache
        /\ pc' = "load" <=> load_data(source).ok
        /\ pc' = "load" =>
              /\ df' = <<>>
              /\ filtered_df' = <<>>
              /\ purchases_df' = <<>>
              /\ pdf' = NoPdf
              /\ csv' = NoCsv
              /\ live' = NoLive

\* a cached table changes only by the refresh button
CacheKept == cache.valid /\ cache' # cache => pc = "refresh"

\* C13: the refresh button drops the cache, reads the table from the file
\* again and restarts the pass, and every value of a pass (Working Subset,
\* Purchase Subset, PDF, CSV) is computed from the cached table of that pass;
\* without the button the cached table stays, whatever happens to the file.
C13_RefreshReloads == [](FromCache) /\ [][RefreshStep /\ CacheKept]_vars

\* a finished pass over the table of a file that was rewritten after the app
\* had cached the table before it
C13_Witness ==
    /\ pc = "done"
    /\ source.version > 1
    /\ cache = [valid |-> TRUE, df |-> source.rows]
    /\ df = CoerceDates(source.rows)
    /\ filtered_df # <<>>
    /\ csv.rows = filtered_df

\* C14: in every role the metrics of an empty Working Subset or Purchase
\* Subset, or of a part of it without data, are placeholders ("N/A", 0, no
\* chart) and no pass is aborted by an exception, in generate_pdf or on the
\* dashboard.
C14_EmptyAggregatesDefined ==
    /\ pc # "crashed"
    /\ ~pdf.raised
    /\ ~live.raised
    /\ pc = "done" /\ ui.role = "Sales Manager" /\ purchases_df = <<>> =>
          \A kpis \in {pdf.kpis, live.kpis} :
              /\ KpiOf(kpis, "Top Product").text = NA
              /\ KpiOf(kpis, "Top Product").amount = Amount(0)
              /\ KpiOf(kpis, "Top Salesperson").text = NA
              /\ KpiOf(kpis, "Top Salesperson").amount = Amount(0)

AgeChart(charts) ==
    IF \E i \in 1..Len(charts) : charts[i].title = "Product Sales by Age"
    THEN (CHOOSE c \in Range(charts) : c.title = "Product Sales by Age").data
    ELSE <<>>

\* the bucket of age under a convention: "right" has 20 in '0-20' and 30 in
\* '21-30' (each bucket ends at its edge), "left" has 20 in '21-30' and 30 in
\* '31-40' (each bucket starts at its edge); "" is no bucket
BucketOf(convention, age) ==
    IF convention = "right"
    THEN IF age < 0 \/ age > 100 THEN ""
         ELSE IF age <= 20 THEN "0-20"
         ELSE IF age <= 30 THEN "21-30"
         ELSE IF age <= 40 THEN "31-40"
         ELSE IF age <= 50 THEN "41-50"
         ELSE "51+"
    ELSE IF age < 0 THEN ""
         ELSE IF age < 20 THEN "0-20"
         ELSE IF age < 30 THEN "21-30"
         ELSE IF age < 40 THEN "31-40"
         ELSE IF age < 50 THEN "41-50"
         ELSE "51+"

\* the chart data is the revenue of the purchases p per (bucket, product),
\* with the buckets of the convention
AgeChartFollows(data, p, convention) ==
    LET KeyOf(r) == <<BucketOf(convention, r.customer_age), r.product_name>>
        rows == SelectSeq(p, LAMBDA r : KeyOf(r)[1] # "" /\ r.product_name # NULL)
    IN  /\ \A i \in 1..Len(rows) : \E j \in 1..Len(data) : data[j][1] = KeyOf(rows[i])
        /\ \A j \in 1..Len(data) :
              data[j][2] = SumPrice(SelectSeq(rows, LAMBDA r : KeyOf(r) = data[j][1]))
        /\ \A j \in 1..Len(data) : \E i \in 1..Len(rows) : data[j][1] = KeyOf(rows[i])

SetCriteria(r, u) ==
    /\ u.selected_country # All => r.country = u.selected_country
    /\ u.selected_category # All => r.category = u.selected_category
    /\ u.selected_sales_channel # All => r.sales_channel = u.selected_sales_channel
    /\ u.keyword # <<>> =>
          StrContains(r.product_name, u.keyword) \/ StrContains(r.url_requested, u.keyword)

\* C17: a criterion of filter_data left at 'All' or empty removes no row: the
\* Working Subset is made of the rows in the date range that meet the
\* criteria that are set. The salesperson criterion is set in the Salesperson
\* role only: for a Manager or a Marketer the selection is None and the
\* Working Subset holds the rows of every salesperson, and of none.
C17_UnsetCriteriaAreNoOps ==
    Filtered =>
        /\ ui.role # "Salesperson" =>
              /\ ui.selected_salesperson = NoSelection
              /\ filtered_df
                    = Between(SelectSeq(df, LAMBDA r : SetCriteria(r, ui)),
                              ui.start_date, ui.end_date)
        /\ ui.role = "Salesperson" =>
              filtered_df
                  = Between(SelectSeq(df, LAMBDA r :
                                /\ SetCriteria(r, ui)
                                /\ ui.selected_salesperson # All =>
                                       r.salesperson = ui.selected_salesperson),
                            ui.start_date, ui.end_date)

C17_Witness ==
    /\ pc = "done"
    /\ ui.role = "Sales Manager"
    /\ ui.selected_country = All
    /\ ui.selected_category = All
    /\ ui.selected_sales_channel = All
    /\ ui.keyword = <<>>
    /\ \E i \in 1..Len(filtered_df) : filtered_df[i].salesperson = NULL
    /\ \E i \in 1..Len(filtered_df) : filtered_df[i].salesperson = Bo

\* C18: in the chart loop of a PDF that was made, a page is started before a
\* title exactly when y < 150 on reaching it, and before an image exactly when
\* the scaled image would end below y = 50; so every title is drawn at
\* y >= 150 and every image that fits on a fresh page ends at y >= 50. The
\* loop starts below the KPI block on page 1 and each section starts 20 points
\* below the image before it.
C18_Pagination ==
    pdf.made =>
        \A i \in 1..Len(pdf.layout) :
            LET e == pdf.layout[i]
            IN  /\ e.title = pdf.charts[i].title
                /\ i = 1 => e.y = KpiBlockEnd /\ e.page = 1
                /\ i > 1 => /\ e.y = pdf.layout[i - 1].image_bottom - Pt(20)
                            /\ e.page = pdf.layout[i - 1].image_page
                /\ e.y < Pt(150) => e.title_page = e.page + 1 /\ e.title_y = TopOfPage
                /\ e.y >= Pt(150) => e.title_page = e.page /\ e.title_y = e.y
                /\ e.title_y - Pt(20) - e.height < Pt(50) =>
                      /\ e.image_page = e.title_page + 1
                      /\ e.image_bottom = TopOfPage - e.height
                /\ e.title_y - Pt(20) - e.height >= Pt(50) =>
                      /\ e.image_page = e.title_page
                      /\ e.image_bottom = e.title_y - Pt(20) - e.height
                /\ e.title_y >= Pt(150)
                /\ e.height <= TopOfPage - Pt(50) => e.image_bottom >= Pt(50)

C18_Witness ==
    /\ pdf.made
    /\ \E i \in 1..Len(pdf.layout) :
          /\ pdf.layout[i].y < Pt(150)
          /\ pdf.layout[i].y >= Pt(100)
          /\ pdf.layout[i].title_page = 2
          /\ pdf.layout[i].image_page = 2

\* the dates of the table have been handled and the pass has not ended in
\* st.stop()
DatesHandled == pc \in {"sidebar", "refresh", "pdf", "export", "dashboard", "done", "crashed"}

\* C19: when no sale_date of the loaded table is a date, the pass warns and
\* goes on: the range offered is 2024-01-01..2024-12-31, the Working Subset
\* and the Purchase Subset are empty, and neither generate_pdf nor the
\* dashboard raises.
C19_AllNullDates ==
    DatesHandled /\ ValidDates(df) = {} =>
        /\ min_date = Day(2024, 1, 1)
        /\ max_date = Day(2024, 12, 31)
        /\ \E i \in 1..Len(warnings) :
              warnings[i].text = "No valid dates found in 'sale_date'. Using default range."
        /\ errors = <<>>
        /\ ui.role # "" => /\ min_date <= ui.start_date /\ ui.start_date <= max_date
                           /\ min_date <= ui.end_date /\ ui.end_date <= max_date
        /\ filtered_df = <<>>
        /\ purchases_df = <<>>
        /\ pc # "crashed"
        /\ ~pdf.raised
        /\ ~live.raised

C19_Witness ==
    /\ pc = "done"
    /\ df # <<>>
    /\ ValidDates(df) = {}
    /\ ui.role = "Sales Marketer"
    /\ pdf.made
    /\ csv.made
    /\ live.shown

\* C20: in a PDF that was made every chart title is on the page of the image
\* that follows it.
C20_TitleWithImage ==
    pdf.made =>
        \A i \in 1..Len(pdf.layout) :
            pdf.layout[i].title_page = pdf.layout[i].image_page

\* C21: for every loaded table with a valid sale_date the bounds offered to
\* the date inputs satisfy min_date <= max_date, whatever the day the app runs
\* on.
C21_MinNotAfterMax ==
    DatesHandled /\ ValidDates(df) # {} => min_date <= max_date

\* the target of the role of u
RoleTarget(u) ==
    CASE u.role = "Salesperson" -> u.sales_target
      [] u.role = "Sales Manager" -> u.manager_sales_target
      [] u.role = "Sales Marketer" -> u.marketer_url_target

\* the charts that draw a target line or a threshold (lines 176, 206, 253-263,
\* 278, 298, 391 and their dashboard twins)
TakesTarget(title) ==
    title \in {"Total Revenue by Product", "Sales Trend Over Time by Product",
               "Sales Progress", "Individual Sales Performance", "Sales by Product",
               "URL Trend Over Time"}

\* C22: once the sidebar has run exactly one target is set, the one of the
\* role, and the two others are None; every chart of the PDF and of the
\* dashboard that uses a target uses the one of the role, and the gauge colour
\* is computed from the sales target in the Salesperson role only: no unset
\* target is read.
C22_OneTargetSet ==
    ui.role # "" =>
        /\ ui.sales_target # None <=> ui.role = "Salesperson"
        /\ ui.manager_sales_target # None <=> ui.role = "Sales Manager"
        /\ ui.marketer_url_target # None <=> ui.role = "Sales Marketer"
        /\ RoleTarget(ui) >= 0
        /\ \A c \in Range(pdf.charts) \cup Range(live.charts) :
              c.target = IF TakesTarget(c.title) THEN RoleTarget(ui) ELSE None
        /\ pdf.gauge_color # "" \/ live.gauge_color # "" => ui.role = "Salesperson"

C22_Witness ==
    /\ pc = "done"
    /\ ui.role = "Sales Manager"
    /\ ui.manager_sales_target = 100
    /\ \E c \in Range(pdf.charts) :
          c.title = "Sales Trend Over Time by Product" /\ c.target = 100
    /\ \E c \in Range(live.charts) :
          c.title = "Total Revenue by Product" /\ c.target = 100

\* the sum of the amounts of the chart with the title, 0 when it is not drawn
ChartTotal(charts, title) ==
    IF \E i \in 1..Len(charts) : charts[i].title = title
    THEN LET data == (CHOOSE c \in Range(charts) : c.title = title).data
         IN  SumSeq([i \in 1..Len(data) |-> data[i][2]])
    ELSE 0

\* the amounts of revenue by product, by channel and by salesperson each add
\* up to the Total Revenue KPI, which is the revenue of the Purchase Subset
AddsUp(kpis, charts) ==
    /\ KpiOf(kpis, "Total Revenue").amount = Amount(SumPrice(purchases_df))
    /\ ChartTotal(charts, "Total Revenue by Product") = SumPrice(purchases_df)
    /\ ChartTotal(charts, "Sales by Channel") = SumPrice(purchases_df)
    /\ ChartTotal(charts, "Sales Distribution by Salesperson") = SumPrice(purchases_df)

\* C23: in the Manager role the revenue by product, by channel and by
\* salesperson each add up to the Total Revenue KPI, in the PDF and on the
\* dashboard, rows with a null grouping key included.
C23_GroupsAddUp ==
    ui.role = "Sales Manager" =>
        /\ pdf.made => AddsUp(pdf.kpis, pdf.charts)
        /\ live.shown => AddsUp(live.kpis, live.charts)

\* every purchase has a bucket and the amounts of the chart "Product Sales by
\* Age" add up to the revenue of the purchases that name a product
AgesAddUp(charts) ==
    /\ \A i \in 1..Len(purchases_df) :
          ~InvalidAge(purchases_df[i].customer_age) =>
              age_group(purchases_df[i].customer_age) \in 1..Len(age_labels)
    /\ ChartTotal(charts, "Product Sales by Age")
          = SumPrice(SelectSeq(purchases_df, LAMBDA r : r.product_name # NULL))

\* C24: in the Marketer role every purchase whose age passed validation
\* (0..120) is in one of the five age buckets, so the amounts of product sales
\* by age add up to the revenue of the Purchase Subset, in the PDF and on the
\* dashboard.
C24_EveryAgeBucketed ==
    ui.role = "Sales Marketer" =>
        /\ pdf.made => AgesAddUp(pdf.charts)
        /\ live.shown => AgesAddUp(live.charts)

=============================================================================
